---- MODULE Spec2Model ----
(***************************************************************************)
(* A model of the mlproject pipeline skeleton:                             *)
(*   src/exception.py                 error_message_detail, CustomException *)
(*   src/components/data_ingestion.py DataIngestion and the main block      *)
(*                                                                         *)
(* Strings are modelled as sequences of tokens, so that formatting is a    *)
(* real concatenation and not the identity.  Two specifications are given: *)
(*   Spec     the main block of data_ingestion.py, run twice on one input  *)
(*   SpecExc  the exception utility driven by try/except blocks            *)
(***************************************************************************)
EXTENDS Integers, Sequences, FiniteSets, TLC

VARIABLES
    \* ---- interpreter state read by exception.py ----
    excStack,     \* exceptions being handled, innermost last; sys.exc_info() is its top
    objs,         \* the CustomException objects constructed so far
    ctxAt,        \* history: for each object, sys.exc_info() and the message at construction
    strSeen,      \* history: for each object, the set of strings str() has returned
    strCalls,     \* for each object, whether str() was called: "never", "once", "again"
    \* ---- data_ingestion.py ----
    dataset,      \* rows of notebook\data\stud.csv (the input)
    artifacts,    \* the artifacts directory: exists, and the three files
    df,           \* the DataFrame read by pd.read_csv
    train_set,    \* the train rows of train_test_split
    test_set,     \* the test rows of train_test_split
    pc,           \* position of the process
    run,          \* "first" or "second" execution of the main block
    written,      \* artifacts completely written by this run
    attempts,     \* how many times each step was started in this run
    failedStep,   \* the step that failed in this run, or "none"
    outcome,      \* of initiate_data_ingestion: "running", "returned", "raised", "escaped"
    result,       \* the value initiate_data_ingestion returned
    transArgs,    \* the arguments the transformation stage was started with, or <<>>
    diag,         \* diagnostics emitted by this process, in order (log lines, stderr)
    exitCode,     \* exit status of the process, -1 while it runs
    raising,      \* the exception propagating into the main block, or NoError
    prior,        \* history: the artifacts directory as this run found it
    history       \* what each finished process left: outcome, train.csv, test.csv

excVars == <<excStack, objs, ctxAt, strSeen, strCalls>>
pipeVars == <<dataset, artifacts, df, train_set, test_set, pc, run, written,
              attempts, failedStep, outcome, result, transArgs, diag, exitCode, raising, prior, history>>
vars == <<excStack, objs, ctxAt, strSeen, strCalls,
          dataset, artifacts, df, train_set, test_set, pc, run, written,
          attempts, failedStep, outcome, result, transArgs, diag, exitCode, raising, prior, history>>

----------------------------------------------------------------------------
\* Bounds of the model.

\* call depth between the try block and the raise site: 0..MaxDepth
MaxDepth == 1
\* try/except blocks nested inside except blocks
MaxNest == 1
\* CustomException objects constructed
MaxObjs == 2
\* rows of the input dataset: 0..MaxRows
MaxRows == 10

----------------------------------------------------------------------------
\* Errors and tracebacks.

Frame(f, l) == [file |-> f, line |-> l]

\* A built-in error of the given type whose str() is msg.
Builtin(t, msg) == [type |-> t, msg |-> msg, id |-> 0]
\* A reference to the CustomException object objs[i].
Custom(i) == [type |-> "CustomException", msg |-> "", id |-> i]
NoError == [type |-> "None", msg |-> "", id |-> 0]

\* sys.exc_info() when no exception is being handled: (None, None, None).
NoExcInfo == [value |-> NoError, tb |-> <<>>]

\* sys.exc_info(): the exception being handled and its traceback.  The
\* traceback starts at the frame whose try block caught the exception
\* (exc_tb) and ends, by tb_next, at the frame that raised it.
exc_info == IF excStack = <<>> THEN NoExcInfo ELSE excStack[Len(excStack)]

Last(s) == s[Len(s)]

----------------------------------------------------------------------------
\* src/exception.py

\* "...".format(file_name, exc_tb.tb_lineno, str(error)): the template text
\* with its three fields filled in; the line number is rendered in decimal.
FormatMessage(file_name, lineno, text) ==
    <<"Error occurred in python script name [", file_name,
      "] line number [", ToString(lineno),
      "] error message [">> \o text \o <<"]">>

\* __str__ that derives the message again from the exception state of the
\* moment of the call (a deferred computation).
CustomException_str_lazy(self) ==
    IF exc_info.tb = <<>>
    THEN <<"AttributeError">>
    ELSE FormatMessage(exc_info.tb[1].file, exc_info.tb[1].line, <<self.args.msg>>)

\* CustomException.__str__: the stored message.
CustomException_str(self) == self.error_message

\* str(error): the message of a built-in error, __str__ of a CustomException.
StrOf(error) ==
    IF error.type = "CustomException"
    THEN CustomException_str(objs[error.id])
    ELSE <<error.msg>>

\* error_message_detail with the file and line fields in the wrong order.
error_message_detail_swapped(error, error_detail) ==
    IF error_detail.tb = <<>>
    THEN [raised |-> "AttributeError", value |-> <<>>]
    ELSE [raised |-> "",
          value |-> FormatMessage(ToString(error_detail.tb[1].line),
                                  error_detail.tb[1].file, StrOf(error))]

\* error_message_detail(error, error_detail): error_detail is what
\* sys.exc_info() returns at the call.  exc_tb is the first traceback entry;
\* with exc_tb None, exc_tb.tb_frame raises AttributeError.
error_message_detail(error, error_detail) ==
    IF error_detail.tb = <<>>
    THEN [raised |-> "AttributeError", value |-> <<>>]
    ELSE [raised |-> "",
          value |-> FormatMessage(error_detail.tb[1].file,
                                  error_detail.tb[1].line, StrOf(error))]

NoObj == [args |-> NoError, error_message |-> <<>>]

\* CustomException.__init__(error_message, error_detail): args is set by
\* Exception.__init__, then the message is computed and stored.  A raise in
\* error_message_detail leaves no object.
CustomException_init(error_message, error_detail) ==
    LET d == error_message_detail(error_message, error_detail)
    IN  IF d.raised # ""
        THEN [raised |-> d.raised, obj |-> NoObj]
        ELSE [raised |-> "", obj |-> [args |-> error_message, error_message |-> d.value]]

\* The state change of evaluating CustomException(e, sys).
Construct(e) ==
    LET r == CustomException_init(e, exc_info)
    IN  IF r.raised = ""
        THEN /\ objs' = Append(objs, r.obj)
             /\ ctxAt' = Append(ctxAt, [tb |-> exc_info.tb, text |-> StrOf(e),
                                        msg |-> r.obj.error_message])
             /\ strSeen' = Append(strSeen, {})
             /\ strCalls' = Append(strCalls, "never")
        ELSE UNCHANGED <<objs, ctxAt, strSeen, strCalls>>

----------------------------------------------------------------------------
\* The exception utility driven by try/except blocks (the usage shown at the
\* end of exception.py).

ZeroDivision == Builtin("ZeroDivisionError", "division by zero")

\* What exc_tb.tb_frame raises when exc_tb is None.
NoneTypeError == Builtin("AttributeError", "'NoneType' object has no attribute 'tb_frame'")

\* The frame at call depth k below the try block.
Callee(k) == Frame("lib.py", 20 + k)

\* The traceback of an error raised at call depth d below its try block: the
\* statement at line 10 of a.py raises in the try block itself, the
\* statement at line 5 of main.py calls d functions deep.
Traceback(d) ==
    IF d = 0 THEN <<Frame("a.py", 10)>>
    ELSE <<Frame("main.py", 5)>> \o [k \in 1..d |-> Callee(k)]

\* The traceback of the AttributeError of error_message_detail, called
\* through the frames in via from a try block.
TracebackOfDetail(via) == <<Frame("main.py", 5)>> \o via \o <<Frame("src/exception.py", 49)>>

\* try: <raises err at depth d> except Exception as e: -- err is a built-in
\* error, or the CustomException constructed last, which is raised.
TryExcept ==
    /\ Len(excStack) < MaxNest
    /\ \E err \in {ZeroDivision} \cup {Custom(i) : i \in {Len(objs)} \ {0}},
          d \in 0..MaxDepth :
          excStack' = Append(excStack, [value |-> err, tb |-> Traceback(d)])
    /\ UNCHANGED <<objs, ctxAt, strSeen, strCalls>>
    /\ UNCHANGED pipeVars

\* CustomException(e, sys): inside an except block with the caught e, or
\* outside any except block with some error value.  An error raised by the
\* constructor is caught by a try block around the call.
NewCustomException ==
    /\ Len(objs) < MaxObjs
    /\ LET e == IF excStack = <<>> THEN ZeroDivision ELSE exc_info.value
           r == CustomException_init(e, exc_info)
       IN  /\ Construct(e)
           /\ excStack' =
                 IF r.raised = "" THEN excStack
                 ELSE Append(excStack,
                             [value |-> NoneTypeError,
                              tb |-> TracebackOfDetail(<<Frame("src/exception.py", 115)>>)])
    /\ UNCHANGED pipeVars

\* error_message_detail(e, sys) called directly, in a try block that catches
\* what it raises.
CallDetail ==
    /\ LET e == IF excStack = <<>> THEN ZeroDivision ELSE exc_info.value
           d == error_message_detail(e, exc_info)
       IN  excStack' =
              IF d.raised = "" THEN excStack
              ELSE Append(excStack, [value |-> NoneTypeError, tb |-> TracebackOfDetail(<<>>)])
    /\ UNCHANGED <<objs, ctxAt, strSeen, strCalls>>
    /\ UNCHANGED pipeVars

\* str(c) on a constructed CustomException.
CallStr ==
    /\ \E i \in 1..Len(objs) :
          /\ strCalls' = [strCalls EXCEPT ![i] = IF @ = "never" THEN "once" ELSE "again"]
          /\ strSeen' = [strSeen EXCEPT ![i] = @ \cup {CustomException_str(objs[i])}]
    /\ UNCHANGED <<excStack, objs, ctxAt>>
    /\ UNCHANGED pipeVars

\* The except block ends: the exception state of the enclosing block is back.
LeaveExcept ==
    /\ excStack # <<>>
    /\ excStack' = SubSeq(excStack, 1, Len(excStack) - 1)
    /\ UNCHANGED <<objs, ctxAt, strSeen, strCalls>>
    /\ UNCHANGED pipeVars

----------------------------------------------------------------------------
\* src/components/data_ingestion.py: files and frames.

Absent == [exists |-> FALSE, lines |-> <<>>]
Stale == [exists |-> TRUE, lines |-> <<"col", "stale">>]
Truncated == [exists |-> TRUE, lines |-> <<>>]

\* The states the artifacts directory can be in before a run.
PriorArtifacts ==
    {[dir |-> FALSE, raw |-> Absent, train |-> Absent, test |-> Absent]}
    \cup [dir : {TRUE}, raw : {Absent, Stale}, train : {Absent, Stale},
          test : {Absent, Stale}]

\* DataIngestionConfig: the three paths.
train_data_path == <<"artifacts", "train.csv">>
test_data_path == <<"artifacts", "test.csv">>
raw_data_path == <<"artifacts", "data.csv">>

\* The value of row i of the input in variant v.
RowValue(v, i) == IF (i + v) % 2 = 0 THEN "x" ELSE "y"

\* The contents notebook\data\stud.csv can have: a header line and n rows.
Datasets ==
    {<<"col">> \o [i \in 1..n |-> RowValue(v, i)] : n \in 0..MaxRows, v \in 0..1}

\* pd.read_csv: the rows after the header, under a RangeIndex from 0.
read_csv(lines) ==
    [i \in 1..(Len(lines) - 1) |-> [index |-> i - 1, value |-> lines[i + 1]]]

\* DataFrame.to_csv(path, index=False, header=True): the file is replaced by
\* the header line and the rows' values, without the index.
to_csv(old, frame) ==
    [exists |-> TRUE,
     lines |-> <<"col">> \o [i \in 1..Len(frame) |-> frame[i].value]]

\* random_state=42 and test_size=0.2 of the train_test_split call.
random_state == 42
test_size_tenths == 2

\* The generator behind random_state, stood in for by a linear congruential
\* generator: what matters of it is that its stream is a function of the seed.
RngNext(s) == (s * 75 + 74) % 65537

RECURSIVE Shuffle(_, _, _)
\* In-place shuffle of x[1..i]: for i down to 2, swap x[i] with x[j], j
\* drawn from 1..i.
Shuffle(x, i, s) ==
    IF i < 2 THEN x
    ELSE LET j == (s % i) + 1
             y == [x EXCEPT ![i] = x[j], ![j] = x[i]]
         IN  Shuffle(y, i - 1, RngNext(s))

\* rng.permutation(n) of the generator seeded with seed: positions 1..n.
Permutation(seed, n) == Shuffle([k \in 1..n |-> k], n, RngNext(seed))

\* The seed of a call with random_state=None: taken from the environment,
\* here from which run it is.
seed_from_environment == IF run = "first" THEN 1 ELSE 2

\* The seed of the split.
SplitSeed == random_state

\* ceil(test_size * n).  In double precision 0.2 * n is exactly n / 5 for
\* every n divisible by 5 in range, so the ceiling is that of the rational.
NTest(n) == (test_size_tenths * n + 9) \div 10

\* A split whose train indices are taken from the front of the permutation,
\* where the test indices are taken from too.
train_test_split_overlap(frame) ==
    LET n == Len(frame)
        n_test == NTest(n)
        n_train == n - n_test
        perm == Permutation(SplitSeed, n)
    IN  IF n_train = 0
        THEN [raised |-> "ValueError", train |-> <<>>, test |-> <<>>]
        ELSE [raised |-> "",
              test |-> [k \in 1..n_test |-> frame[perm[k]]],
              train |-> [k \in 1..n_train |-> frame[perm[k]]]]

\* train_test_split(df, test_size=0.2, random_state=42): n_test is
\* ceil(test_size * n), n_train the rest; an empty train set raises
\* ValueError; the test rows are the first n_test of the permutation, the
\* train rows the next n_train.
train_test_split(frame) ==
    LET n == Len(frame)
        n_test == NTest(n)
        n_train == n - n_test
        perm == Permutation(SplitSeed, n)
    IN  IF n_train = 0
        THEN [raised |-> "ValueError", train |-> <<>>, test |-> <<>>]
        ELSE [raised |-> "",
              test |-> [k \in 1..n_test |-> frame[perm[k]]],
              train |-> [k \in 1..n_train |-> frame[perm[n_test + k]]]]


----------------------------------------------------------------------------
\* src/components/data_ingestion.py: initiate_data_ingestion, step by step.

ThisFile == "src/components/data_ingestion.py"

\* The line of each step's statement in the try block.
StepLine(step) ==
    CASE step = "read" -> 93
      [] step = "mkdir" -> 103
      [] step = "raw" -> 118
      [] step = "split" -> 129
      [] step = "train" -> 138
      [] step = "test" -> 141

Steps == {"read", "mkdir", "raw", "split", "train", "test"}

\* The statements of the try block with the two split files written in the
\* other order.
StepAfter_swapped(step) ==
    CASE step = "read" -> "mkdir"
      [] step = "mkdir" -> "raw"
      [] step = "raw" -> "split"
      [] step = "split" -> "test"
      [] step = "test" -> "train"
      [] step = "train" -> "return"

\* The order of the statements of the try block.
StepAfter(step) ==
    CASE step = "read" -> "mkdir"
      [] step = "mkdir" -> "raw"
      [] step = "raw" -> "split"
      [] step = "split" -> "train"
      [] step = "train" -> "test"
      [] step = "test" -> "return"

\* An except clause that names one error type only.
ExceptCatches_narrow(err) == err.type = "FileNotFoundError"

\* except Exception as e: every error type of the model derives from Exception.
ExceptCatches(err) ==
    err.type \in {"FileNotFoundError", "PermissionError", "OSError", "ValueError",
                  "ZeroDivisionError", "AttributeError", "CustomException"}

\* The frame inside the library that raised.
LibFrame == Frame("site-packages", 1)

\* A step is started.
Begin(step) ==
    /\ pc = step
    /\ attempts' = [attempts EXCEPT ![step] = @ + 1]

\* The step's statement completed.
Succeed(step) ==
    /\ pc' = StepAfter(step)
    /\ UNCHANGED <<failedStep, excStack, outcome, raising>>

\* The step's statement raised err, from a library frame called at the
\* step's line: the except clause is entered, or the error leaves the method.
Fail(step, err) ==
    /\ failedStep' = step
    /\ IF ExceptCatches(err)
       THEN /\ excStack' = Append(excStack,
                              [value |-> err,
                               tb |-> <<Frame(ThisFile, StepLine(step)), LibFrame>>])
            /\ pc' = "except"
            /\ UNCHANGED <<outcome, raising>>
       ELSE /\ pc' = "raised"
            /\ outcome' = "escaped"
            /\ raising' = err
            /\ UNCHANGED excStack

\* obj.initiate_data_ingestion() is called: the first log line.
MainStart ==
    /\ pc = "start"
    /\ pc' = "read"
    /\ diag' = Append(diag, <<"Entered the data ingestion method or component">>)
    /\ UNCHANGED <<dataset, artifacts, df, train_set, test_set, run, written, attempts,
                   failedStep, outcome, result, transArgs, exitCode, raising, prior, history>>
    /\ UNCHANGED excVars

\* df = pd.read_csv('notebook\data\stud.csv')
ReadDataset ==
    /\ Begin("read")
    /\ \/ /\ df' = read_csv(dataset)
          /\ diag' = Append(diag, <<"Read the dataset as dataframe">>)
          /\ Succeed("read")
       \/ /\ Fail("read", Builtin("FileNotFoundError", "No such file or directory"))
          /\ UNCHANGED <<df, diag>>
    /\ UNCHANGED <<dataset, artifacts, train_set, test_set, run, written,
                   result, transArgs, exitCode, prior, history>>
    /\ UNCHANGED <<objs, ctxAt, strSeen, strCalls>>

\* os.makedirs(os.path.dirname(train_data_path), exist_ok=True)
MakeDirs ==
    /\ Begin("mkdir")
    /\ \/ /\ artifacts' = [artifacts EXCEPT !.dir = TRUE]
          /\ Succeed("mkdir")
       \/ /\ Fail("mkdir", Builtin("PermissionError", "Permission denied"))
          /\ UNCHANGED artifacts
    /\ UNCHANGED <<dataset, df, train_set, test_set, run, written,
                   result, transArgs, diag, exitCode, prior, history>>
    /\ UNCHANGED <<objs, ctxAt, strSeen, strCalls>>

\* frame.to_csv(path, index=False, header=True) as a step: the file is
\* written whole, or the write fails and leaves the file as it was or cut.
WriteCsv(step, field, frame, logged) ==
    /\ Begin(step)
    /\ \/ /\ artifacts.dir
          /\ artifacts' = [artifacts EXCEPT ![field] = to_csv(@, frame)]
          /\ written' = written \cup {field}
          /\ diag' = diag \o logged
          /\ Succeed(step)
       \/ /\ artifacts.dir
          /\ \E left \in {artifacts[field], Truncated} :
                artifacts' = [artifacts EXCEPT ![field] = left]
          /\ Fail(step, Builtin("OSError", "No space left on device"))
          /\ UNCHANGED <<written, diag>>
       \/ /\ ~artifacts.dir
          /\ Fail(step, Builtin("OSError", "Cannot save file into a non-existent directory"))
          /\ UNCHANGED <<artifacts, written, diag>>
    /\ UNCHANGED <<dataset, df, train_set, test_set, run,
                   result, transArgs, exitCode, prior, history>>
    /\ UNCHANGED <<objs, ctxAt, strSeen, strCalls>>

\* df.to_csv(raw_data_path, ...), then the log line before the split.
WriteRaw == WriteCsv("raw", "raw", df, << <<"Train test split initiated">> >>)

\* train_set, test_set = train_test_split(df, test_size=0.2, random_state=42)
Split ==
    /\ Begin("split")
    /\ LET r == train_test_split(df)
       IN  IF r.raised = ""
           THEN /\ train_set' = r.train
                /\ test_set' = r.test
                /\ Succeed("split")
           ELSE /\ Fail("split", Builtin(r.raised, "the resulting train set will be empty"))
                /\ UNCHANGED <<train_set, test_set>>
    /\ UNCHANGED <<dataset, artifacts, df, run, written,
                   result, transArgs, diag, exitCode, prior, history>>
    /\ UNCHANGED <<objs, ctxAt, strSeen, strCalls>>

\* train_set.to_csv(train_data_path, ...)
WriteTrain == WriteCsv("train", "train", train_set, <<>>)

\* test_set.to_csv(test_data_path, ...), then the closing log line.
WriteTest == WriteCsv("test", "test", test_set, << <<"Ingestion of the data is completed">> >>)

\* return (train_data_path, test_data_path)
Return ==
    /\ pc = "return"
    /\ pc' = "returned"
    /\ outcome' = "returned"
    /\ result' = <<train_data_path, test_data_path>>
    /\ UNCHANGED <<dataset, artifacts, df, train_set, test_set, run, written, attempts,
                   failedStep, transArgs, diag, exitCode, raising, prior, history>>
    /\ UNCHANGED excVars

\* except Exception as e: raise CustomException(e, sys)
ExceptClause ==
    /\ pc = "except"
    /\ LET e == exc_info.value
           r == CustomException_init(e, exc_info)
       IN  /\ Construct(e)
           /\ raising' = IF r.raised = "" THEN Custom(Len(objs) + 1)
                         ELSE NoneTypeError
           /\ outcome' = IF r.raised = "" THEN "raised" ELSE "escaped"
    /\ pc' = "raised"
    /\ excStack' = <<>>
    /\ UNCHANGED <<dataset, artifacts, df, train_set, test_set, run, written, attempts,
                   failedStep, result, transArgs, diag, exitCode, prior, history>>

----------------------------------------------------------------------------
\* src/components/data_ingestion.py: the main block and the process.

\* A main block that goes on to the next stage after a failed ingestion.
TransformationMayStart_anyway == pc \in {"returned", "raised"}

\* The statement after train_data, test_data = obj.initiate_data_ingestion()
\* is reached when that call returned.
TransformationMayStart == pc = "returned"

\* What the process leaves behind.
Left ==
    [outcome |-> outcome, failed |-> failedStep,
     train |-> artifacts.train, test |-> artifacts.test]

\* data_transformation.initiate_data_transformation(train_data, test_data)
StartTransformation ==
    /\ TransformationMayStart
    /\ pc' = "transform"
    /\ transArgs' = result
    /\ UNCHANGED <<dataset, artifacts, df, train_set, test_set, run, written, attempts,
                   failedStep, outcome, result, diag, exitCode, raising, prior, history>>
    /\ UNCHANGED excVars

\* The transformation stage ends, and the process with it, with either status.
EndTransformation ==
    /\ pc = "transform"
    /\ pc' = "exited"
    /\ \E code \in {0, 1} : exitCode' = code
    /\ history' = Append(history, Left)
    /\ UNCHANGED <<dataset, artifacts, df, train_set, test_set, run, written, attempts,
                   failedStep, outcome, result, transArgs, diag, raising, prior>>
    /\ UNCHANGED excVars

\* The qualified name the interpreter prints for an exception's type.
TypeName(err) ==
    IF err.type = "CustomException" THEN "src.exception.CustomException" ELSE err.type

\* An exception leaves the main block: the interpreter prints the traceback,
\* whose last line is the type and str() of the exception, and exits with 1.
Uncaught ==
    /\ pc = "raised"
    /\ pc' = "exited"
    /\ diag' = diag \o << <<"Traceback (most recent call last):">>,
                          <<TypeName(raising), ": ">> \o StrOf(raising) >>
    /\ exitCode' = 1
    /\ history' = Append(history, Left)
    /\ UNCHANGED <<dataset, artifacts, df, train_set, test_set, run, written, attempts,
                   failedStep, outcome, result, transArgs, raising, prior>>
    /\ UNCHANGED excVars

\* The main block is executed a second time, in a new process, on the same
\* input and from any state of the artifacts directory.
Rerun ==
    /\ pc = "exited"
    /\ run = "first"
    /\ run' = "second"
    /\ pc' = "start"
    /\ artifacts' \in PriorArtifacts
    /\ prior' = artifacts'
    /\ df' = <<>>
    /\ train_set' = <<>>
    /\ test_set' = <<>>
    /\ written' = {}
    /\ attempts' = [s \in Steps |-> 0]
    /\ failedStep' = "none"
    /\ outcome' = "running"
    /\ result' = <<>>
    /\ transArgs' = <<>>
    /\ diag' = <<>>
    /\ exitCode' = -1
    /\ raising' = NoError
    /\ excStack' = <<>>
    /\ objs' = <<>>
    /\ ctxAt' = <<>>
    /\ strSeen' = <<>>
    /\ strCalls' = <<>>
    /\ UNCHANGED <<dataset, history>>

----------------------------------------------------------------------------
\* Specifications.

Init ==
    /\ excStack = <<>>
    /\ objs = <<>>
    /\ ctxAt = <<>>
    /\ strSeen = <<>>
    /\ strCalls = <<>>
    /\ dataset \in Datasets
    /\ artifacts \in PriorArtifacts
    /\ prior = artifacts
    /\ df = <<>>
    /\ train_set = <<>>
    /\ test_set = <<>>
    /\ pc = "start"
    /\ run = "first"
    /\ written = {}
    /\ attempts = [s \in Steps |-> 0]
    /\ failedStep = "none"
    /\ outcome = "running"
    /\ result = <<>>
    /\ transArgs = <<>>
    /\ diag = <<>>
    /\ exitCode = -1
    /\ raising = NoError
    /\ history = <<>>

Next ==
    \/ MainStart
    \/ ReadDataset
    \/ MakeDirs
    \/ WriteRaw
    \/ Split
    \/ WriteTrain
    \/ WriteTest
    \/ Return
    \/ ExceptClause
    \/ StartTransformation
    \/ EndTransformation
    \/ Uncaught
    \/ Rerun

\* The main block of data_ingestion.py, executed twice.
Spec == Init /\ [][Next]_vars

NextExc ==
    \/ TryExcept
    \/ NewCustomException
    \/ CallDetail
    \/ CallStr
    \/ LeaveExcept

\* The exception utility starts in a process that has not begun ingestion.
InitExc ==
    /\ Init
    /\ dataset = <<"col">>
    /\ ~artifacts.dir

\* The exception utility alone; the pipeline does not move.
SpecExc == InitExc /\ [][NextExc]_vars


----------------------------------------------------------------------------
\* Claims about the exception utility, checked under SpecExc.

Objects == 1..Len(objs)

\* The first entry of the traceback an object was constructed under.
CaughtAt(i) == ctxAt[i].tb[1]

\* The last entry of that traceback: the statement that raised.
RaisedAt(i) == Last(ctxAt[i].tb)

\* C1, as stated: for an error E handled with traceback file F and line L,
\* the message is exactly
\*   Error occurred in script [F] line number [L] error message [str(E)]
C1_TemplateAsStated ==
    \A i \in Objects :
        objs[i].error_message =
            <<"Error occurred in script [", CaughtAt(i).file,
              "] line number [", ToString(CaughtAt(i).line),
              "] error message [">> \o ctxAt[i].text \o <<"]">>

\* C1, amended: the message is exactly
\*   Error occurred in python script name [F] line number [L] error message [str(E)]
\* with F and L the file and line of the traceback's first entry.
C1_Template ==
    \A i \in Objects :
        objs[i].error_message =
            <<"Error occurred in python script name [", CaughtAt(i).file,
              "] line number [", ToString(CaughtAt(i).line),
              "] error message [">> \o ctxAt[i].text \o <<"]">>

\* A division by zero caught at line 10 of a.py has been wrapped.
C1_Witness ==
    \E i \in Objects :
        /\ CaughtAt(i) = Frame("a.py", 10)
        /\ ctxAt[i].text = <<"division by zero">>

\* C2: error_message_detail and CustomException(...) do not raise when no
\* exception is being handled: no AttributeError from line 49 of exception.py
\* is ever caught.
C2_NoRaiseOutsideHandler ==
    \A k \in 1..Len(excStack) :
        ~ /\ excStack[k].value.type = "AttributeError"
          /\ Last(excStack[k].tb) = Frame("src/exception.py", 49)

\* C3: the rendered string of a CustomException is the one computed at
\* construction: every str() call on it, under whatever exception state,
\* has returned that string.
C3_StrStable ==
    \A i \in Objects :
        /\ objs[i].error_message = ctxAt[i].msg
        /\ strSeen[i] \subseteq {ctxAt[i].msg}

\* str() was called more than once on an object, and the exception state is
\* no longer the one it was constructed under.
C3_Witness ==
    \E i \in Objects :
        /\ strCalls[i] = "again"
        /\ strSeen[i] # {}
        /\ exc_info.tb # ctxAt[i].tb

\* C5: the file and line of the message are those of the statement that
\* raised the error, at every call depth below the try block.
C5_OriginLocation ==
    \A i \in Objects :
        /\ objs[i].error_message[2] = RaisedAt(i).file
        /\ objs[i].error_message[4] = ToString(RaisedAt(i).line)

\* How many times the template's opening text occurs in a message.
Templates(m) ==
    Cardinality({k \in 1..Len(m) : m[k] = "Error occurred in python script name ["})

\* C6: a CustomException wrapping a CustomException renders one template, not
\* a template inside the message field of another.
C6_ShallowCapture ==
    \A i \in Objects :
        objs[i].args.type = "CustomException" => Templates(objs[i].error_message) = 1

----------------------------------------------------------------------------
\* Claims about ingestion and the main block, checked under Spec.

Paths == <<train_data_path, test_data_path>>

\* The message of the CustomException raised for the step that failed.
WrappedFailure ==
    <<"Error occurred in python script name [", ThisFile,
      "] line number [", ToString(StepLine(failedStep)),
      "] error message [", objs[raising.id].args.msg, "]">>

\* C4: a failed step is caught, wrapped in a CustomException carrying the
\* step's location and the failure's message, and re-raised: no normal
\* return, no other exception type, no step attempted twice.
C4_FailureWrapped ==
    /\ \A s \in Steps : attempts[s] <= 1
    /\ failedStep # "none" =>
          /\ pc \in {"except", "raised", "exited"}
          /\ outcome = IF pc = "except" THEN "running" ELSE "raised"
          /\ result = <<>>
          /\ pc # "except" =>
                /\ raising.type = "CustomException"
                /\ objs[raising.id].args.type \in
                      {"FileNotFoundError", "PermissionError", "OSError", "ValueError"}
                /\ objs[raising.id].error_message = WrappedFailure

\* The write of train.csv failed and the process ended with the wrapped error.
C4_Witness ==
    /\ failedStep = "train"
    /\ pc = "exited"
    /\ outcome = "raised"
    /\ objs[raising.id].args.type = "OSError"

Indices(rows) == {rows[k].index : k \in 1..Len(rows)}

\* The split of n rows is an exact 4n/5 : n/5 partition of the input rows.
ExactPartition ==
    /\ failedStep # "split"
    /\ 5 * Len(train_set) = 4 * Len(df)
    /\ 5 * Len(test_set) = Len(df)
    /\ Cardinality(Indices(train_set)) = Len(train_set)
    /\ Cardinality(Indices(test_set)) = Len(test_set)
    /\ Indices(train_set) \cap Indices(test_set) = {}
    /\ Indices(train_set) \cup Indices(test_set) = Indices(df)

\* C7, as stated: for every row count n divisible by 5, the split yields
\* 4n/5 train rows and n/5 test rows, disjoint and covering the input.
C7_SplitAsStated ==
    (attempts["split"] = 1 /\ Len(df) % 5 = 0) => ExactPartition

\* C7, amended: for every row count n > 0 divisible by 5, the split yields
\* 4n/5 train rows and n/5 test rows, disjoint and covering the input.
C7_SplitSizes ==
    (attempts["split"] = 1 /\ Len(df) % 5 = 0 /\ Len(df) > 0) => ExactPartition

\* Ten rows were split into eight and two.
C7_Witness ==
    /\ attempts["split"] = 1
    /\ Len(df) = 10
    /\ Len(train_set) = 8
    /\ Len(test_set) = 2

\* C8, as stated: two runs on the same input, from any prior states of the
\* artifacts directory, leave identical train.csv and test.csv.  Runs in
\* which reading or writing failed are left out: the input decides the rest.
C8_DeterministicAsStated ==
    (/\ Len(history) = 2
     /\ \A k \in 1..2 : history[k].failed \in {"none", "split"})
    => /\ history[1].train = history[2].train
       /\ history[1].test = history[2].test

\* C8, amended: two runs on the same input that both return normally, from
\* any prior states of the artifacts directory, leave identical train.csv
\* and test.csv.
C8_Deterministic ==
    (/\ Len(history) = 2
     /\ \A k \in 1..2 : history[k].outcome = "returned")
    => /\ history[1].train = history[2].train
       /\ history[1].test = history[2].test

\* Both runs returned, the second over stale train.csv and test.csv.
C8_Witness ==
    /\ Len(history) = 2
    /\ \A k \in 1..2 : history[k].outcome = "returned"
    /\ prior.train = Stale
    /\ prior.test = Stale
    /\ Len(history[2].train.lines) > 2

\* The artifacts written before a step is reached.
WrittenBefore(step) ==
    CASE step \in {"read", "mkdir", "raw"} -> {}
      [] step \in {"split", "train"} -> {"raw"}
      [] step = "test" -> {"raw", "train"}

\* C9: the steps run in the order read, mkdir, raw, split, train, test: an
\* artifact written by this run implies the earlier steps succeeded, a
\* failure at a step leaves exactly the earlier artifacts written, and a
\* normal return, of the pair of paths, implies all three were written.
C9_StepOrder ==
    /\ "raw" \in written =>
          /\ attempts["read"] = 1 /\ attempts["mkdir"] = 1
          /\ failedStep \notin {"read", "mkdir", "raw"}
          /\ artifacts.dir
    /\ "train" \in written =>
          /\ "raw" \in written
          /\ attempts["split"] = 1 /\ failedStep \notin {"split", "train"}
    /\ "test" \in written => "train" \in written /\ failedStep = "none"
    /\ failedStep # "none" => written = WrittenBefore(failedStep)
    /\ outcome = "returned" =>
          /\ written = {"raw", "train", "test"}
          /\ result = Paths

\* The write of test.csv failed after data.csv and train.csv were written.
C9_Witness ==
    /\ failedStep = "test"
    /\ written = {"raw", "train"}
    /\ outcome = "raised"

\* C10: the transformation stage starts only after ingestion returned, with
\* the two paths; a raised CustomException reaches the process boundary with
\* the stage never started, and the process ends with a non-zero status and
\* the rendered string as its last diagnostic.
C10_FailureFatal ==
    /\ (pc = "transform" \/ transArgs # <<>>) =>
          /\ outcome = "returned"
          /\ transArgs = Paths
    /\ outcome = "raised" =>
          /\ pc \in {"raised", "exited"}
          /\ transArgs = <<>>
          /\ raising.type = "CustomException"
    /\ (pc = "exited" /\ outcome = "raised") =>
          /\ exitCode # 0
          /\ Last(diag) = <<"src.exception.CustomException", ": ">>
                             \o objs[raising.id].error_message

\* A failed ingestion ended the process with status 1.
C10_Witness ==
    /\ pc = "exited"
    /\ outcome = "raised"
    /\ exitCode = 1
    /\ transArgs = <<>>


====
